---- MODULE Spec2Model ----
(***************************************************************************)
(* A model of abort-controller-x: `execute` (src/src/execute.ts), `spawn`  *)
(* (spawn.ts), `all`, `race` (src/src/race.ts), `retry` (retry.ts) and     *)
(* `proactiveRetry` (proactiveRetry.ts).                                   *)
(* Each library call is one record-valued variable;                        *)
(* the user's functions (executor, abort callback, spawned and forked      *)
(* functions, deferred functions) are the environment and act through the  *)
(* actions that call back into the library.                                *)
(***************************************************************************)
EXTENDS Integers, Sequences, FiniteSets, TLC

VARIABLES ex, sp, al, rc, rt, pr

vars == <<ex, sp, al, rc, rt, pr>>

\* ------------------------------------------------------------------ bounds

\* How many times the executor of `execute` calls resolve/reject after it
\* has returned.
MaxCompletions == 2

\* ------------------------------------------------------------- shared data

AbortError == "AbortError"

Values == {"v1", "v2"}

Reasons == {"e1", "e2"}

isAbortError(error) == error = AbortError

Pending == [state |-> "pending", value |-> "none"]

\* Promise resolve/reject functions: only the first call settles the promise.
resolve(p, value) ==
    IF p.state = "pending" THEN [state |-> "fulfilled", value |-> value] ELSE p

reject(p, reason) ==
    IF p.state = "pending" THEN [state |-> "rejected", value |-> reason] ELSE p

Rejected(p, reason) == p = [state |-> "rejected", value |-> reason]

Fulfilled(p, value) == p = [state |-> "fulfilled", value |-> value]

\* ================================================================= execute
\* ex.pc             "idle" before the call of execute, "called" after it
\* ex.aborted        signal.aborted
\* ex.finished       the local `finished`
\* ex.removeAbortListener   removeAbortListener != null
\* ex.listening      the listener is registered on the signal
\* ex.added/removed  calls of signal.addEventListener / removeEventListener
\* ex.promise        the promise execute returns
\* ex.executorCalls  invocations of the executor
\* ex.cbKind         what the abort callback returns: "void" or "promise"
\* ex.callbackCalls  invocations of the abort callback
\* ex.callbackResult "none" (callback not called), "null", or the state of
\*                   the promise it returned: "pending", "fulfilled",
\*                   "rejected", and "handled" once its reaction has run
\* ex.cbReason       rejection reason of the callback's promise
\* History (read by the properties only):
\* ex.abortedAtCall  signal.aborted when execute was called
\* ex.first          which of "resolve", "reject", "abort" (listener run)
\*                   happened first, with its value in ex.firstValue
\* ex.syncDone       the executor completed before returning
\* ex.completions    completion callbacks called after the executor returned
\*
\* The executor is the user's: before it returns it calls resolve or reject
\* or neither (execute.test.ts), and it may call them at any later time.  The
\* signal is aborted by its controller between the calls into the library.

ExecuteInit ==
    [pc |-> "idle", aborted |-> FALSE, finished |-> FALSE,
     removeAbortListener |-> FALSE, listening |-> FALSE,
     added |-> 0, removed |-> 0, promise |-> Pending,
     executorCalls |-> 0, cbKind |-> "void", callbackCalls |-> 0,
     callbackResult |-> "none", cbReason |-> "none",
     abortedAtCall |-> FALSE, first |-> "none", firstValue |-> "none",
     syncDone |-> FALSE, completions |-> 0]

AlreadyAbortedNoCheck(e) == FALSE

\* execute.ts:22  if (signal.aborted)
AlreadyAborted(e) == e.aborted

finishNoGuard(e) ==
    [e EXCEPT !.finished = TRUE,
              !.removed = IF e.removeAbortListener THEN @ + 1 ELSE @,
              !.listening = IF e.removeAbortListener THEN FALSE ELSE @]

finishNoRemove(e) == [e EXCEPT !.finished = TRUE]

\* execute.ts:30-37  function finish()
finish(e) ==
    IF ~e.finished
    THEN [e EXCEPT !.finished = TRUE,
                   !.removed = IF e.removeAbortListener THEN @ + 1 ELSE @,
                   !.listening = IF e.removeAbortListener THEN FALSE ELSE @]
    ELSE e

Note(e, what, value) ==
    IF e.first = "none" THEN [e EXCEPT !.first = what, !.firstValue = value]
    ELSE e

\* execute.ts:40-43  value => { resolve(value); finish(); }
onResolve(e, value) ==
    finish([Note(e, "resolve", value) EXCEPT !.promise = resolve(@, value)])

\* execute.ts:44-47  reason => { reject(reason); finish(); }
onReject(e, reason) ==
    finish([Note(e, "reject", reason) EXCEPT !.promise = reject(@, reason)])

listenerRejectsAtOnce(e) ==
    finish([Note(e, "abort", AbortError) EXCEPT
               !.callbackCalls = @ + 1,
               !.callbackResult = IF e.cbKind = "void" THEN "null" ELSE "pending",
               !.promise = reject(@, AbortError)])

listenerNoReject(e) ==
    finish([Note(e, "abort", AbortError) EXCEPT
               !.callbackCalls = @ + 1,
               !.callbackResult = IF e.cbKind = "void" THEN "null" ELSE "pending"])

\* execute.ts:51-68  const listener = () => {...}
listener(e) ==
    finish([Note(e, "abort", AbortError) EXCEPT
               !.callbackCalls = @ + 1,
               !.callbackResult = IF e.cbKind = "void" THEN "null" ELSE "pending",
               !.promise = IF e.cbKind = "void" THEN reject(@, AbortError) ELSE @])

\* execute.ts:50,70-74  if (!finished) { addEventListener; removeAbortListener = }
subscribe(e) ==
    IF ~e.finished
    THEN [e EXCEPT !.added = @ + 1, !.listening = TRUE,
                   !.removeAbortListener = TRUE]
    ELSE e

\* What the executor does before it returns: nothing, resolve(v) or reject(r).
SyncChoices ==
    {<<"none", "none">>} \cup ({"resolve"} \X Values) \cup ({"reject"} \X Reasons)

\* execute.ts:39-48  const callback = executor(resolve, reject)
executor(e, sync, kind) ==
    LET e1 == [e EXCEPT !.executorCalls = @ + 1, !.cbKind = kind]
        e2 == CASE sync[1] = "resolve" -> onResolve(e1, sync[2])
                [] sync[1] = "reject"  -> onReject(e1, sync[2])
                [] OTHER               -> e1
    IN  [e2 EXCEPT !.syncDone = e2.finished]

\* execute.ts:14-77  execute(signal, executor)
Execute(sync, kind) ==
    /\ ex.pc = "idle"
    /\ LET e0 == [ex EXCEPT !.pc = "called", !.abortedAtCall = ex.aborted]
       IN  ex' = IF AlreadyAborted(e0)
                 THEN [e0 EXCEPT !.promise = reject(@, AbortError)]
                 ELSE subscribe(executor(e0, sync, kind))
    /\ UNCHANGED <<sp, al, rc, rt, pr>>

\* abortController.abort(): the signal becomes aborted and the abort event is
\* dispatched, synchronously, to the listeners registered at that moment.
Abort ==
    /\ ~ex.aborted
    /\ LET e1 == [ex EXCEPT !.aborted = TRUE]
       IN  ex' = IF ex.listening THEN listener(e1) ELSE e1
    /\ UNCHANGED <<sp, al, rc, rt, pr>>

\* The executor calls resolve(value) after it has returned.
ExecutorResolve(value) ==
    /\ ex.pc = "called"
    /\ ex.executorCalls = 1
    /\ ex.completions < MaxCompletions
    /\ ex' = [onResolve(ex, value) EXCEPT !.completions = @ + 1]
    /\ UNCHANGED <<sp, al, rc, rt, pr>>

\* The executor calls reject(reason) after it has returned.
ExecutorReject(reason) ==
    /\ ex.pc = "called"
    /\ ex.executorCalls = 1
    /\ ex.completions < MaxCompletions
    /\ ex' = [onReject(ex, reason) EXCEPT !.completions = @ + 1]
    /\ UNCHANGED <<sp, al, rc, rt, pr>>

\* The promise returned by the abort callback fulfils.
CallbackFulfils ==
    /\ ex.callbackResult = "pending"
    /\ ex' = [ex EXCEPT !.callbackResult = "fulfilled"]
    /\ UNCHANGED <<sp, al, rc, rt, pr>>

\* The promise returned by the abort callback rejects.
CallbackRejects(reason) ==
    /\ ex.callbackResult = "pending"
    /\ ex' = [ex EXCEPT !.callbackResult = "rejected", !.cbReason = reason]
    /\ UNCHANGED <<sp, al, rc, rt, pr>>

\* execute.ts:57-64  callbackResult.then(() => reject(new AbortError()),
\*                                       reason => reject(reason))
CallbackThen ==
    /\ ex.callbackResult \in {"fulfilled", "rejected"}
    /\ ex' = [ex EXCEPT
                !.callbackResult = "handled",
                !.promise = IF ex.callbackResult = "fulfilled"
                            THEN reject(@, AbortError)
                            ELSE reject(@, ex.cbReason)]
    /\ UNCHANGED <<sp, al, rc, rt, pr>>

\* =================================================================== spawn
\* Tasks are numbered by the call of fork that made them: 0 is the root (the
\* spawned function), 1.. are the forks.  Task t fulfils with Val(t) and, when
\* it fails with an error of its own, rejects with Err(t).

\* How many times fork is called by the user's functions.
MaxForks == 2

\* How many functions are passed to defer.
MaxDefers == 2

\* How many times the user calls abort() of a task that is aborted already.
MaxAborts == 2

TaskIds == 0 .. MaxForks

DeferIds == 1 .. MaxDefers

Val(t) == <<"v0", "v1", "v2", "v3", "v4">>[t + 1]

Err(t) == <<"e0", "e1", "e2", "e3", "e4">>[t + 1]

DeferErr(i) == <<"d1", "d2", "d3">>[i]

\* sp.pc               "idle" before the call of spawn, "called" after it
\* sp.outerAborted     signal.aborted (the signal passed to spawn)
\* sp.outerListening   abortSpawn is registered on signal
\* sp.outerAdded/outerRemoved   addEventListener/removeEventListener on signal
\* sp.spawnAborted     spawnSignal.aborted
\* sp.spawnListening   abortTasks is registered on spawnSignal
\* sp.spawnAdded/spawnRemoved   the same calls on spawnSignal
\* sp.tasks            the set `tasks`
\* sp.forkCalls        calls of the effect `fork` so far
\* sp.st[t]            "none", "running", "fulfilled", "rejected": taskPromise
\* sp.reason[t]        the reason taskPromise rejected with
\* sp.tAborted[t]      taskSignal.aborted of task t
\* sp.result           `result` ("none" when undefined, else the value)
\* sp.failure          `failure` ("none" when undefined, else the error)
\* sp.promise          the promise made by new Promise(...) at line 158
\* sp.queue            the promise reaction jobs of spawn, in the order the
\*                     host will run them
\* sp.deferredFunctions   length of the array deferredFunctions
\* sp.deferChain       the deferred functions the finally handler has chained
\*                     and not yet started, in the order they will start
\* sp.deferSt[i]       "none", "running", "ok", "failed" for the i-th registered
\* sp.deferFailure     reason deferPromise is rejected with ("none": fulfilled)
\* sp.out              the promise spawn returns
\* History (read by the properties only):
\* sp.abortedAtCall, sp.fnCalls (calls of the spawned function), sp.stubs
\* (the calls of fork that returned an already-aborted task), sp.lateForks
\* (the calls of fork made when spawnSignal was aborted), sp.abortAgain[t]
\* (the user's calls of abort() of task t made when the task was aborted
\* already), sp.abortEvents[t] (abort events dispatched
\* by the signal of task t), sp.rootHandled (a handler of the
\* root's join().then has run), sp.caught (the tasks whose error the second
\* catch of fork has recorded), sp.firstGenuine (the reason of the first task
\* to reject with an error that is not an AbortError), sp.deferLive (the
\* deferred functions registered while the set `tasks` was not empty),
\* sp.deferCalls[i] (invocations of the i-th registered deferred function),
\* sp.deferOrder (the deferred functions in the order they were started)

SpawnInit ==
    [pc |-> "idle", outerAborted |-> FALSE, outerListening |-> FALSE,
     outerAdded |-> 0, outerRemoved |-> 0,
     spawnAborted |-> FALSE, spawnListening |-> FALSE,
     spawnAdded |-> 0, spawnRemoved |-> 0,
     tasks |-> {}, forkCalls |-> 0,
     st |-> [t \in TaskIds |-> "none"],
     reason |-> [t \in TaskIds |-> "none"],
     tAborted |-> [t \in TaskIds |-> FALSE],
     result |-> "none", failure |-> "none", promise |-> Pending,
     queue |-> <<>>,
     deferredFunctions |-> 0, deferChain |-> <<>>,
     deferSt |-> [i \in DeferIds |-> "none"], deferFailure |-> "none",
     out |-> Pending,
     abortedAtCall |-> FALSE, fnCalls |-> 0, stubs |-> {}, lateForks |-> {},
     abortAgain |-> [t \in TaskIds |-> 0],
     abortEvents |-> [t \in TaskIds |-> 0],
     rootHandled |-> FALSE, caught |-> {}, firstGenuine |-> "none",
     deferLive |-> {}, deferCalls |-> [i \in DeferIds |-> 0],
     deferOrder |-> <<>>]

Job(kind, t, err) == [kind |-> kind, task |-> t, err |-> err]

abortEveryTime(s, t) ==
    [s EXCEPT !.tAborted[t] = TRUE, !.abortEvents[t] = @ + 1]

\* taskAbortController.abort(): the first call sets taskSignal.aborted and
\* dispatches the abort event of the task's signal; later calls do nothing.
taskAbortControllerAbort(s, t) ==
    IF s.tAborted[t] THEN s
    ELSE [s EXCEPT !.tAborted[t] = TRUE, !.abortEvents[t] = @ + 1]

taskAbortWithSiblings(s, t) ==
    [s EXCEPT !.tAborted = [u \in TaskIds |-> @[u] \/ u \in s.tasks \cup {t}]]

\* spawn.ts:190, 203-205  abort() of the task returned by the t-th call of
\* fork: empty for an already-aborted task, else taskAbortController.abort()
taskAbort(s, t) ==
    IF t \in s.stubs THEN s ELSE taskAbortControllerAbort(s, t)

\* spawn.ts:191-193, 206  join() of the task returned by the t-th call of fork
join(s, t) ==
    IF t \in s.stubs THEN reject(Pending, AbortError)
    ELSE CASE s.st[t] = "fulfilled" -> resolve(Pending, Val(t))
           [] s.st[t] = "rejected"  -> reject(Pending, s.reason[t])
           [] OTHER                 -> Pending

RECURSIVE abortEach(_, _)
abortEach(s, ts) ==
    IF ts = {} THEN s
    ELSE LET t == CHOOSE u \in ts : TRUE
         IN  abortEach(taskAbort(s, t), ts \ {t})

\* spawn.ts:148-152  const abortTasks = () => { for (task of tasks) task.abort() }
abortTasks(s) == abortEach(s, s.tasks)

\* spawnAbortController.abort(): the first call sets spawnSignal.aborted and
\* dispatches the abort event to abortTasks if it is still registered.
spawnAbortControllerAbort(s) ==
    IF s.spawnAborted THEN s
    ELSE LET s1 == [s EXCEPT !.spawnAborted = TRUE]
         IN  IF s.spawnListening THEN abortTasks(s1) ELSE s1

\* spawn.ts:138-140  const abortSpawn = () => { spawnAbortController.abort() }
abortSpawn(s) == spawnAbortControllerAbort(s)

\* abort() of the controller of the outer signal: the first call dispatches
\* the abort event to abortSpawn if it is registered.
outerAbort(s) ==
    IF s.outerAborted THEN s
    ELSE LET s1 == [s EXCEPT !.outerAborted = TRUE]
         IN  IF s.outerListening THEN abortSpawn(s1) ELSE s1

spawnSignalNeverAborted(s) == FALSE

\* spawn.ts:187  if (spawnSignal.aborted)
spawnSignalAborted(s) == s.spawnAborted

\* spawn.ts:186-232  function fork(forkFn), called for task t.  syncAbort: the
\* function aborts the outer signal before it returns its promise.
fork(s, t, syncAbort) ==
    IF spawnSignalAborted(s)
    THEN [s EXCEPT !.stubs = @ \cup {t}]
    ELSE LET s1 == [s EXCEPT !.st[t] = "running",
                             !.fnCalls = IF t = 0 THEN @ + 1 ELSE @]
             s2 == IF syncAbort THEN outerAbort(s1) ELSE s1
         IN  [s2 EXCEPT !.tasks = @ \cup {t}]

signalNeverAborted(s) == FALSE

\* spawn.ts:124  if (signal.aborted)
signalAborted(s) == s.outerAborted

\* spawn.ts:120-249  spawn(signal, fn), up to the return of the promise
Spawn(syncAbort) ==
    /\ sp.pc = "idle"
    /\ LET s0 == [sp EXCEPT !.pc = "called", !.abortedAtCall = sp.outerAborted]
       IN  sp' = IF signalAborted(s0)
                 THEN [s0 EXCEPT !.out = reject(@, AbortError)]
                 ELSE fork([s0 EXCEPT !.outerAdded = @ + 1,
                                      !.outerListening = TRUE,
                                      !.spawnAdded = @ + 1,
                                      !.spawnListening = TRUE],
                           0, syncAbort)
    /\ UNCHANGED <<ex, al, rc, rt, pr>>

\* The user aborts the controller of the outer signal.
AbortOuter ==
    /\ ~sp.outerAborted
    /\ sp' = outerAbort(sp)
    /\ UNCHANGED <<ex, al, rc, rt, pr>>

\* Task t is an already-aborted stub or its signal has been aborted.
AlreadyAbortedTask(s, t) == t \in s.stubs \/ s.tAborted[t]

RECURSIVE AbortAgainCalls(_, _)
\* The calls of abort() that the user has made on aborted tasks among 1 .. t.
AbortAgainCalls(s, t) ==
    IF t = 0 THEN 0 ELSE s.abortAgain[t] + AbortAgainCalls(s, t - 1)

\* A running function of the spawn call calls the effect fork(forkFn).
Fork(syncAbort) ==
    /\ sp.pc = "called"
    /\ sp.fnCalls = 1
    /\ sp.forkCalls < MaxForks
    /\ syncAbort => ~sp.outerAborted
    /\ sp' = fork([sp EXCEPT !.forkCalls = @ + 1,
                             !.lateForks = IF sp.spawnAborted
                                           THEN @ \cup {sp.forkCalls + 1}
                                           ELSE @],
                  sp.forkCalls + 1, syncAbort)
    /\ UNCHANGED <<ex, al, rc, rt, pr>>

\* spawn.ts:190, 203-205  the user calls abort() of the task that the t-th
\* call of fork returned
TaskAbort(t) ==
    /\ t \in 1 .. sp.forkCalls
    /\ AlreadyAbortedTask(sp, t) => AbortAgainCalls(sp, MaxForks) < MaxAborts
    /\ sp' = taskAbort([sp EXCEPT !.abortAgain[t] =
                               IF AlreadyAbortedTask(sp, t) THEN @ + 1 ELSE @], t)
    /\ UNCHANGED <<ex, al, rc, rt, pr>>

\* Reactions of taskPromise, in the order they were registered: the
\* catch(catchAbortError) of fork and, for the root, the then of spawn.
Reactions(t) ==
    IF t = 0
    THEN <<Job("catchAbortError", t, "none"), Job("rootThen", t, "none")>>
    ELSE <<Job("catchAbortError", t, "none")>>

\* The promise returned by the function of task t fulfils.
TaskFulfils(t) ==
    /\ sp.st[t] = "running"
    /\ t \in sp.tasks
    /\ sp' = [sp EXCEPT !.st[t] = "fulfilled", !.queue = @ \o Reactions(t)]
    /\ UNCHANGED <<ex, al, rc, rt, pr>>

\* The promise returned by the function of task t rejects: with an error of
\* its own, or with AbortError once its signal has been aborted.
TaskRejects(t, reason) ==
    /\ sp.st[t] = "running"
    /\ t \in sp.tasks
    /\ isAbortError(reason) => sp.tAborted[t]
    /\ sp' = [sp EXCEPT !.st[t] = "rejected", !.reason[t] = reason,
                        !.queue = @ \o Reactions(t),
                        !.firstGenuine = IF @ = "none" /\ ~isAbortError(reason)
                                         THEN reason ELSE @]
    /\ UNCHANGED <<ex, al, rc, rt, pr>>

\* A function of the spawn call calls the effect defer(fn).
Defer ==
    /\ sp.pc = "called"
    /\ sp.fnCalls = 1
    /\ sp.deferredFunctions < MaxDefers
    /\ sp' = [sp EXCEPT !.deferredFunctions = @ + 1,
                        !.deferLive = IF sp.tasks # {}
                                      THEN @ \cup {sp.deferredFunctions + 1}
                                      ELSE @]
    /\ UNCHANGED <<ex, al, rc, rt, pr>>

HeadIs(kind) == sp.queue # <<>> /\ Head(sp.queue).kind = kind

\* spawn.ts:212  taskPromise.catch(catchAbortError): an AbortError is
\* swallowed, any other reason is thrown again.
CatchAbortError ==
    /\ HeadIs("catchAbortError")
    /\ LET t == Head(sp.queue).task
           thrown == IF sp.st[t] = "rejected" /\ ~isAbortError(sp.reason[t])
                     THEN sp.reason[t] ELSE "none"
       IN  sp' = [sp EXCEPT !.queue = Tail(@) \o <<Job("catch", t, thrown)>>]
    /\ UNCHANGED <<ex, al, rc, rt, pr>>

\* spawn.ts:173-176  value => { spawnAbortController.abort(); result = {value} }
rootFulfilled(s) ==
    [spawnAbortControllerAbort(s) EXCEPT !.result = Val(0), !.rootHandled = TRUE]

rootRejectedGenuineOnly(s, error) ==
    LET s1 == spawnAbortControllerAbort(s)
    IN  [s1 EXCEPT !.failure = IF ~isAbortError(error) THEN error ELSE @,
                   !.rootHandled = TRUE]

\* spawn.ts:177-183  error => { spawnAbortController.abort(); if (...) failure = }
rootRejected(s, error) ==
    LET s1 == spawnAbortControllerAbort(s)
    IN  [s1 EXCEPT !.failure = IF ~isAbortError(error) \/ s.failure = "none"
                                THEN error ELSE @,
                   !.rootHandled = TRUE]

\* spawn.ts:171-184  the then reaction of the root's taskPromise
RootThen ==
    /\ HeadIs("rootThen")
    /\ LET s == [sp EXCEPT !.queue = Tail(@)]
       IN  sp' = IF sp.st[0] = "fulfilled" THEN rootFulfilled(s)
                 ELSE rootRejected(s, sp.reason[0])
    /\ UNCHANGED <<ex, al, rc, rt, pr>>

\* spawn.ts:213-218  .catch(error => { failure = {error}; abort() })
forkCatch(s, t, error) ==
    [spawnAbortControllerAbort([s EXCEPT !.failure = error]) EXCEPT
        !.caught = @ \cup {t}]

\* spawn.ts:213-218  the reaction of the second catch of task t
CatchError ==
    /\ HeadIs("catch")
    /\ LET j == Head(sp.queue)
           s == [sp EXCEPT !.queue = Tail(@) \o <<Job("finally", j.task, "none")>>]
       IN  sp' = IF j.err # "none" THEN forkCatch(s, j.task, j.err) ELSE s
    /\ UNCHANGED <<ex, al, rc, rt, pr>>

NoCheckOfTasks(s) == TRUE

\* spawn.ts:222  if (tasks.size === 0)
NoTasksLeft(s) == s.tasks = {}

\* spawn.ts:219-229  .finally(() => { tasks.delete(task); if (...) settle })
taskFinally(s, t) ==
    LET s1 == [s EXCEPT !.tasks = @ \ {t}]
    IN  IF NoTasksLeft(s1)
        THEN [s1 EXCEPT
                !.promise = IF s1.failure # "none" THEN reject(@, s1.failure)
                            ELSE resolve(@, s1.result),
                !.queue = IF s1.promise.state = "pending"
                          THEN @ \o <<Job("spawnFinally", 0, "none")>> ELSE @]
        ELSE s1

\* spawn.ts:219-229  the finally reaction of task t
Finally ==
    /\ HeadIs("finally")
    /\ sp' = taskFinally([sp EXCEPT !.queue = Tail(@)], Head(sp.queue).task)
    /\ UNCHANGED <<ex, al, rc, rt, pr>>

deferChainOldestFirst(n) == [k \in 1 .. n |-> k]

deferChainEmpty(n) == <<>>

\* spawn.ts:239-243  for (i = deferredFunctions.length - 1; i >= 0; i--)
\*   deferPromise = deferPromise.finally(deferredFunctions[i]):
\* the n functions registered so far, the last registered first.
deferChain(n) == [k \in 1 .. n |-> n - k + 1]

\* The reaction that follows in the chain of deferPromise: the call of the
\* next deferred function, or the settlement of the promise spawn returns.
NextInChain(chain) ==
    IF chain # <<>> THEN Job("defer", Head(chain), "none")
    ELSE Job("settle", 0, "none")

removeNothing(s) == s

\* spawn.ts:142-144  removeAbortListener
removeAbortListener(s) ==
    [s EXCEPT !.outerRemoved = @ + 1, !.outerListening = FALSE]

\* spawn.ts:154-156  removeSpawnAbortListener
removeSpawnAbortListener(s) ==
    [s EXCEPT !.spawnRemoved = @ + 1, !.spawnListening = FALSE]

\* spawn.ts:235-246  promise.finally(() => { removeAbortListener();
\* removeSpawnAbortListener(); chain the deferred functions, last first })
SpawnFinally ==
    /\ HeadIs("spawnFinally")
    /\ LET s     == removeSpawnAbortListener(removeAbortListener(sp))
           chain == deferChain(sp.deferredFunctions)
       IN  sp' = [s EXCEPT !.queue = Tail(@) \o <<NextInChain(chain)>>,
                           !.deferChain = chain]
    /\ UNCHANGED <<ex, al, rc, rt, pr>>

\* spawn.ts:242  deferPromise.finally(deferredFunctions[i]): the deferred
\* function at the head of the chain is called.
RunDeferred ==
    /\ HeadIs("defer")
    /\ LET i == Head(sp.queue).task
       IN  sp' = [sp EXCEPT !.queue = Tail(@), !.deferSt[i] = "running",
                            !.deferChain = Tail(@),
                            !.deferCalls[i] = @ + 1,
                            !.deferOrder = Append(@, i)]
    /\ UNCHANGED <<ex, al, rc, rt, pr>>

deferPromiseKeepsFirst(failure, i, ok) ==
    IF ok \/ failure # "none" THEN failure ELSE DeferErr(i)

\* spawn.ts:242  deferPromise.finally(deferredFunctions[i]): the new
\* deferPromise keeps the state of the old one when the function completes,
\* and is rejected with the function's failure when it fails.
deferPromiseFinally(failure, i, ok) ==
    IF ok THEN failure ELSE DeferErr(i)

\* The running deferred function returns (or its promise fulfils): ok; or it
\* throws (or its promise rejects).  The next one in the chain follows.
DeferredDone(i, ok) ==
    /\ sp.deferSt[i] = "running"
    /\ sp' = [sp EXCEPT
                !.deferSt[i] = IF ok THEN "ok" ELSE "failed",
                !.deferFailure = deferPromiseFinally(@, i, ok),
                !.queue = @ \o <<NextInChain(sp.deferChain)>>]
    /\ UNCHANGED <<ex, al, rc, rt, pr>>

primaryOutcome(s) == s.promise

\* spawn.ts:235-248  the promise returned by spawn follows deferPromise: its
\* rejection, else the outcome of the promise of line 158.
finallyOutcome(s) ==
    IF s.deferFailure # "none" THEN reject(Pending, s.deferFailure)
    ELSE s.promise

\* spawn.ts:235-248  the promise of promise.finally(...) settles
Settle ==
    /\ HeadIs("settle")
    /\ sp' = [sp EXCEPT !.queue = Tail(@), !.out = finallyOutcome(sp)]
    /\ UNCHANGED <<ex, al, rc, rt, pr>>

\* ===================================================================== all
\* The executor of `all` returns n promises, the inputs 1 .. n.  Input i
\* fulfils with InVal(i) or rejects with a reason of its own: an error object
\* <<name, i>>, whose name is "AbortError" or "Error".

\* How many promises the executor of `all` returns.
MaxInputs == 3

InputIds == 1 .. MaxInputs

InVal(i) == <<"r1", "r2", "r3", "r4", "r5">>[i]

ErrorNames == {AbortError, "Error"}

\* AbortError.ts:24-30  isAbortError looks at the name of the error object.
IsAbortReason(reason) == isAbortError(reason[1])

\* The AbortError that `all` makes itself.
NewAbortError == <<AbortError, 0>>

\* Promises of `all` carry a tuple: the array of results or the error object.
AllPending == [state |-> "pending", value |-> <<>>]

\* al.pc             "idle" before the call of all, "called" after it
\* al.outerAborted   signal.aborted
\* al.innerAborted   innerAbortController.signal.aborted
\* al.listening      abortListener is registered on signal
\* al.added/removed  calls of signal.addEventListener / removeEventListener
\* al.n              promises.length
\* al.inSt[i]        "none", "pending", "fulfilled", "rejected": input i
\* al.inReason[i]    the reason input i rejected with
\* al.queue          the reactions of the inputs' then, in the order the host
\*                   will run them (the order the inputs settled in)
\* al.rejection      `rejection` (<<>> when undefined, else the reason)
\* al.results        the array `results` ("none": an empty slot)
\* al.settledCount   `settledCount`
\* al.promise        the promise all returns
\* History (read by the properties only):
\* al.abortedAtCall, al.executorCalls, al.order (the inputs in the order their
\* handlers ran), al.abortedInExecutor (the executor aborted the outer signal)

AllInit ==
    [pc |-> "idle", outerAborted |-> FALSE, innerAborted |-> FALSE,
     listening |-> FALSE, added |-> 0, removed |-> 0, n |-> 0,
     inSt |-> [i \in InputIds |-> "none"],
     inReason |-> [i \in InputIds |-> <<>>],
     queue |-> <<>>, rejection |-> <<>>, results |-> <<>>,
     settledCount |-> 0, promise |-> AllPending,
     abortedAtCall |-> FALSE, executorCalls |-> 0, order |-> <<>>,
     abortedInExecutor |-> FALSE]

\* innerAbortController.abort()
innerAbort(a) == [a EXCEPT !.innerAborted = TRUE]

allSettledAtOnce(a) == TRUE

\* all (AbortError.ts:253)  if (settledCount === promises.length)
allSettled(a) == a.settledCount = a.n

\* all (AbortError.ts:250-262)  function settled()
settled(a) ==
    LET a1 == [a EXCEPT !.settledCount = @ + 1]
    IN  IF allSettled(a1)
        THEN [a1 EXCEPT
                !.removed = @ + 1, !.listening = FALSE,
                !.promise = IF a1.rejection # <<>> THEN reject(@, a1.rejection)
                            ELSE resolve(@, a1.results)]
        ELSE a1

resultIndexByCompletion(a, i) == a.settledCount + 1

\* all (AbortError.ts:267)  results[i] = value: the slot of input i
resultIndex(a, i) == i

\* all (AbortError.ts:266-270)  value => { results[i] = value; settled(); }
onFulfilled(a, i) ==
    settled([a EXCEPT !.results[resultIndex(a, i)] = InVal(i)])

keepLatest(rejection, reason) == reason

\* all (AbortError.ts:274-279)  if (rejection == null || (!isAbortError(reason) &&
\*                     isAbortError(rejection.reason))) rejection = {reason}
keepRejection(rejection, reason) ==
    IF rejection = <<>> \/ (~IsAbortReason(reason) /\ IsAbortReason(rejection))
    THEN reason ELSE rejection

\* all (AbortError.ts:271-282)  reason => { innerAbortController.abort(); ...; settled(); }
onRejected(a, reason) ==
    settled([innerAbort(a) EXCEPT !.rejection = keepRejection(@, reason)])

noPromisesNoCheck(n) == FALSE

\* all (AbortError.ts:234)  if (promises.length === 0)
noPromises(n) == n = 0

\* all (AbortError.ts:230-232)  const promises = executor(innerSignal): the
\* executor returns n pending promises.  syncAbort: it aborts the controller
\* of the outer signal before it returns; no listener of `all` is registered
\* on the signal at that time.
allExecutor(a, n, syncAbort) ==
    [a EXCEPT !.executorCalls = @ + 1, !.n = n,
              !.inSt = [i \in InputIds |-> IF i <= n THEN "pending" ELSE "none"],
              !.outerAborted = @ \/ syncAbort,
              !.abortedInExecutor = syncAbort]

\* all (AbortError.ts:218-286)  all(signal, executor), up to the return of
\* the promise
All(n, syncAbort) ==
    /\ al.pc = "idle"
    /\ syncAbort => ~al.outerAborted
    /\ LET a0 == [al EXCEPT !.pc = "called", !.abortedAtCall = al.outerAborted]
           a1 == allExecutor(a0, n, syncAbort)
       IN  al' = IF a0.outerAborted
                 THEN [a0 EXCEPT !.promise = reject(@, NewAbortError)]
                 ELSE IF noPromises(n)
                      THEN [a1 EXCEPT !.promise = resolve(@, <<>>)]
                      ELSE [a1 EXCEPT !.added = @ + 1, !.listening = TRUE,
                                      !.results = [i \in 1 .. n |-> "none"]]
    /\ UNCHANGED <<ex, sp, rc, rt, pr>>

\* abort() of the controller of the outer signal: the abort event is
\* dispatched to abortListener (AbortError.ts:239-243) if it is registered.
AllAbort ==
    /\ ~al.outerAborted
    /\ LET a1 == [al EXCEPT !.outerAborted = TRUE]
       IN  al' = IF al.listening THEN innerAbort(a1) ELSE a1
    /\ UNCHANGED <<ex, sp, rc, rt, pr>>

\* Input i fulfils; the reaction of its then is queued.
InputFulfils(i) ==
    /\ al.inSt[i] = "pending"
    /\ al' = [al EXCEPT !.inSt[i] = "fulfilled", !.queue = Append(@, i)]
    /\ UNCHANGED <<ex, sp, rc, rt, pr>>

\* Input i rejects with an error object of the given name.
InputRejects(i, name) ==
    /\ al.inSt[i] = "pending"
    /\ al' = [al EXCEPT !.inSt[i] = "rejected", !.inReason[i] = <<name, i>>,
                        !.queue = Append(@, i)]
    /\ UNCHANGED <<ex, sp, rc, rt, pr>>

\* all (AbortError.ts:264-284)  the reaction of promise.then(...) of the input that
\* settled first among those not yet handled
InputThen ==
    /\ al.queue # <<>>
    /\ LET i == Head(al.queue)
           a == [al EXCEPT !.queue = Tail(@), !.order = Append(@, i)]
       IN  al' = IF al.inSt[i] = "fulfilled" THEN onFulfilled(a, i)
                 ELSE onRejected(a, al.inReason[i])
    /\ UNCHANGED <<ex, sp, rc, rt, pr>>

\* ==================================================================== race
\* The executor of `race` returns n promises, the inputs 1 .. n.  Input i
\* fulfils with RaceVal(i) or rejects with an error object <<name, i>>.

RaceVal(i) == <<"value", i>>

\* rc.pc             "idle" before the call of race, "called" after it
\* rc.outerAborted   signal.aborted
\* rc.innerAborted   innerAbortController.signal.aborted
\* rc.listening      abortListener is registered on signal
\* rc.added/removed  calls of signal.addEventListener / removeEventListener
\* rc.n              promises.length
\* rc.inSt[i]        "none", "pending", "fulfilled", "rejected": input i
\* rc.inReason[i]    the reason input i rejected with
\* rc.queue          the reactions of the inputs' then, in the order the host
\*                   will run them (the order the inputs settled in)
\* rc.result         `result`: <<>> when undefined, else <<"fulfilled", value>>
\*                   or <<"rejected", reason>>
\* rc.settledCount   `settledCount`
\* rc.promise        the promise race returns
\* History (read by the properties only):
\* rc.abortedAtCall, rc.executorCalls, rc.order (the inputs in the order their
\* handlers ran), rc.abortedInExecutor (the executor aborted the outer signal)

RaceInit ==
    [pc |-> "idle", outerAborted |-> FALSE, innerAborted |-> FALSE,
     listening |-> FALSE, added |-> 0, removed |-> 0, n |-> 0,
     inSt |-> [i \in InputIds |-> "none"],
     inReason |-> [i \in InputIds |-> <<>>],
     queue |-> <<>>, result |-> <<>>,
     settledCount |-> 0, promise |-> AllPending,
     abortedAtCall |-> FALSE, executorCalls |-> 0, order |-> <<>>,
     abortedInExecutor |-> FALSE]

raceSettledAtOnce(r) == TRUE

\* race.ts:60  if (settledCount === promises.length)
raceAllSettled(r) == r.settledCount = r.n

\* race.ts:53-69  function settled(result)
raceSettled(r) ==
    LET r1 == [r EXCEPT !.innerAborted = TRUE, !.settledCount = @ + 1]
    IN  IF raceAllSettled(r1)
        THEN [r1 EXCEPT
                !.removed = @ + 1, !.listening = FALSE,
                !.promise = IF r1.result[1] = "fulfilled"
                            THEN resolve(@, r1.result[2])
                            ELSE reject(@, r1.result[2])]
        ELSE r1

\* race.ts:77-83  value => { if (result == null) result = {fulfilled, value};
\*                           settled(result); }
raceOnFulfilled(r, value) ==
    raceSettled([r EXCEPT !.result = IF @ = <<>> THEN <<"fulfilled", value>>
                                     ELSE @])

rejectionAsInAll(result, reason) ==
    IF result = <<>>
       \/ (~IsAbortReason(reason) /\ result[1] = "rejected"
              /\ IsAbortReason(result[2]))
    THEN <<"rejected", reason>> ELSE result

rejectionNeverReplaces(result, reason) ==
    IF result = <<>> THEN <<"rejected", reason>> ELSE result

rejectionAlwaysReplaces(result, reason) == <<"rejected", reason>>

\* race.ts:85-91  if (result == null || (!isAbortError(reason) &&
\*   (result.status === 'fulfilled' || isAbortError(result.reason))))
\*   result = {rejected, reason}
raceRejection(result, reason) ==
    IF result = <<>>
       \/ (~IsAbortReason(reason)
              /\ (result[1] = "fulfilled" \/ IsAbortReason(result[2])))
    THEN <<"rejected", reason>> ELSE result

\* race.ts:84-94  reason => { ...; settled(result); }
raceOnRejected(r, reason) ==
    raceSettled([r EXCEPT !.result = raceRejection(@, reason)])

\* race.ts:41-43  const promises = executor(innerAbortController.signal): the
\* executor returns n pending promises.  syncAbort: it aborts the controller
\* of the outer signal before it returns; no listener of `race` is registered
\* on the signal at that time.
raceExecutor(r, n, syncAbort) ==
    [r EXCEPT !.executorCalls = @ + 1, !.n = n,
              !.inSt = [i \in InputIds |-> IF i <= n THEN "pending" ELSE "none"],
              !.outerAborted = @ \/ syncAbort,
              !.abortedInExecutor = syncAbort]

\* race.ts:31-98  race(signal, executor), up to the return of the promise
Race(n, syncAbort) ==
    /\ rc.pc = "idle"
    /\ syncAbort => ~rc.outerAborted
    /\ LET r0 == [rc EXCEPT !.pc = "called", !.abortedAtCall = rc.outerAborted]
       IN  rc' = IF r0.outerAborted
                 THEN [r0 EXCEPT !.promise = reject(@, NewAbortError)]
                 ELSE [raceExecutor(r0, n, syncAbort) EXCEPT
                          !.added = @ + 1, !.listening = TRUE]
    /\ UNCHANGED <<ex, sp, al, rt, pr>>

\* abort() of the controller of the outer signal: the abort event is
\* dispatched to abortListener (race.ts:45-49) if it is registered.
RaceAbort ==
    /\ ~rc.outerAborted
    /\ rc' = [rc EXCEPT !.outerAborted = TRUE,
                        !.innerAborted = @ \/ rc.listening]
    /\ UNCHANGED <<ex, sp, al, rt, pr>>

\* Input i fulfils; the reaction of its then is queued.
RaceInputFulfils(i) ==
    /\ rc.inSt[i] = "pending"
    /\ rc' = [rc EXCEPT !.inSt[i] = "fulfilled", !.queue = Append(@, i)]
    /\ UNCHANGED <<ex, sp, al, rt, pr>>

\* Input i rejects with an error object of the given name.
RaceInputRejects(i, name) ==
    /\ rc.inSt[i] = "pending"
    /\ rc' = [rc EXCEPT !.inSt[i] = "rejected", !.inReason[i] = <<name, i>>,
                        !.queue = Append(@, i)]
    /\ UNCHANGED <<ex, sp, al, rt, pr>>

\* race.ts:75-96  the reaction of promise.then(...) of the input that settled
\* first among those not yet handled
RaceInputThen ==
    /\ rc.queue # <<>>
    /\ LET i == Head(rc.queue)
           r == [rc EXCEPT !.queue = Tail(@), !.order = Append(@, i)]
       IN  rc' = IF rc.inSt[i] = "fulfilled" THEN raceOnFulfilled(r, RaceVal(i))
                 ELSE raceOnRejected(r, rc.inReason[i])
    /\ UNCHANGED <<ex, sp, al, rt, pr>>

\* =================================================================== retry
\* retry(signal, fn, options): retry.ts (src/unnamed/part_011).  The k-th call
\* of fn fulfils with <<"value", k>> or rejects with the error <<name, k>>.

\* The largest maxAttempts option and the most calls of reset() in one run.
MaxMaxAttempts == 3
MaxResets == 2

\* Values of the options baseMs and maxDelayMs (1000 and 30000 by default).
BaseMsValues == {0, 3, 1000}
MaxDelayMsValues == {1500, 30000}

\* options.onError: absent, a callback that returns, or one that rethrows the
\* error it is given ("to prevent further retries").
OnErrorKinds == {"none", "returns", "rethrows"}

\* Math.random() is one of 0, 1/4, 1/2, 3/4.
RandomQuarters == 0 .. 3

\* Math.round(num / den) for num >= 0, den > 0: halves are rounded up.
Round(num, den) == (2 * num + den) \div (2 * den)

Min(a, b) == IF a <= b THEN a ELSE b

\* rt.pc           "idle" before the call of retry, "fn" while a call of fn is
\*                 pending, "delay" while `await delay(signal, delayMs)` is
\*                 pending, "done" when the promise of retry is settled
\* rt.aborted      signal.aborted
\* rt.maxAttempts, rt.baseMs, rt.maxDelayMs, rt.onError   the options
\* rt.attempt      the local `attempt`
\* rt.timer        the timer of delay() is set
\* rt.promise      the promise retry returns
\* History (read by the properties only):
\* rt.attempts     the attempt numbers fn was called with, in order
\* rt.resetCalled  reset() was called during the pending call of fn
\* rt.resets       calls of reset()
\* rt.failures     rejections of fn
\* rt.last         of the last rejection of fn: its error, the value of
\*                 `attempt` and whether reset() had been called, the delayMs
\*                 computed (-1 if none was), whether onError was called and
\*                 whether delay() set a timer
\* rt.onErrorCalls, rt.timers   calls of onError, timers set by delay()

RetryInit ==
    [pc |-> "idle", aborted |-> FALSE, maxAttempts |-> 0, baseMs |-> 0,
     maxDelayMs |-> 0, onError |-> "none", attempt |-> 0, timer |-> FALSE,
     promise |-> AllPending, attempts |-> <<>>, resetCalled |-> FALSE,
     resets |-> 0, failures |-> 0, onErrorCalls |-> 0, timers |-> 0,
     last |-> [error |-> <<>>, attempt |-> 0, reset |-> FALSE, delayMs |-> -1,
               onError |-> FALSE, timer |-> FALSE]]

\* retry.ts:64  fn(signal, attempt, reset)
callFn(r) ==
    [r EXCEPT !.pc = "fn", !.attempts = Append(@, r.attempt),
              !.resetCalled = FALSE]

\* retry.ts:44-64  retry(signal, fn, options) up to the first await
Retry(maxAttempts, baseMs, maxDelayMs, onError) ==
    /\ rt.pc = "idle"
    /\ rt' = callFn([rt EXCEPT !.maxAttempts = maxAttempts, !.baseMs = baseMs,
                               !.maxDelayMs = maxDelayMs, !.onError = onError,
                               !.attempt = 0])
    /\ UNCHANGED <<ex, sp, al, rc, pr>>

\* abort() of the controller of signal.  A pending delay() clears its timer
\* and rejects with an AbortError (delay.ts), which retry does not catch.
RetryAbort ==
    /\ ~rt.aborted
    /\ rt' = IF rt.pc = "delay"
             THEN [rt EXCEPT !.aborted = TRUE, !.timer = FALSE, !.pc = "done",
                             !.promise = reject(@, NewAbortError)]
             ELSE [rt EXCEPT !.aborted = TRUE]
    /\ UNCHANGED <<ex, sp, al, rc, pr>>

resetToZero(r) == [r EXCEPT !.attempt = 0]

\* retry.ts:58-60  const reset = () => { attempt = -1; }
reset(r) == [r EXCEPT !.attempt = -1]

\* fn calls reset() while its promise is pending.
Reset ==
    /\ rt.pc = "fn"
    /\ rt.resets < MaxResets
    /\ rt' = [reset(rt) EXCEPT !.resetCalled = TRUE, !.resets = @ + 1]
    /\ UNCHANGED <<ex, sp, al, rc, pr>>

\* retry.ts:64  return await fn(...): the call of fn fulfilled
FnFulfils ==
    /\ rt.pc = "fn"
    /\ rt' = [rt EXCEPT !.pc = "done",
                        !.promise = resolve(@, <<"value", Len(rt.attempts)>>)]
    /\ UNCHANGED <<ex, sp, al, rc, pr>>

rethrowsNothing(error) == FALSE

\* AbortError.ts:54-60  rethrowAbortError(error) throws
rethrowAbortError(error) == IsAbortReason(error)

\* retry.ts:68  if (attempt >= maxAttempts) throw error
noAttemptsLeft(attempt, maxAttempts) == attempt >= maxAttempts

backoffUncapped(r) == (2 ^ r.attempt) * r.baseMs

\* retry.ts:78  Math.min(maxDelayMs, Math.pow(2, attempt) * baseMs)
backoff(r) == Min(r.maxDelayMs, (2 ^ r.attempt) * r.baseMs)

\* retry.ts:72-80  delayMs, with Math.random() = random / 4
delayMs(r, random) ==
    IF r.attempt = -1 THEN 0
    ELSE Round(backoff(r) * (4 + random), 8)

\* retry.ts:65-91  the catch block, up to the next await
FnRejects(name, random) ==
    /\ rt.pc = "fn"
    /\ LET error == <<name, Len(rt.attempts)>>
           entry == [error |-> error, attempt |-> rt.attempt,
                     reset |-> rt.resetCalled, delayMs |-> -1,
                     onError |-> FALSE, timer |-> FALSE]
           failed(e) ==
               [rt EXCEPT !.last = e, !.failures = @ + 1,
                          !.onErrorCalls = IF e.onError THEN @ + 1 ELSE @,
                          !.timers = IF e.timer THEN @ + 1 ELSE @]
           thrown(e, reason) ==
               [failed(e) EXCEPT !.pc = "done", !.promise = reject(@, reason)]
           d == delayMs(rt, random)
           called == [entry EXCEPT !.delayMs = d,
                                   !.onError = rt.onError # "none"]
       IN  rt' =
             IF rethrowAbortError(error) \/ noAttemptsLeft(rt.attempt, rt.maxAttempts)
             THEN thrown(entry, error)
             ELSE IF rt.onError = "rethrows" THEN thrown(called, error)
             ELSE IF d = 0
             THEN callFn([failed(called) EXCEPT !.attempt = @ + 1])
             ELSE IF rt.aborted
             THEN thrown(called, NewAbortError)
             ELSE [failed([called EXCEPT !.timer = TRUE]) EXCEPT
                      !.pc = "delay", !.timer = TRUE]
    /\ UNCHANGED <<ex, sp, al, rc, pr>>

\* retry.ts:87-90  the timer of delay() fires: attempt += 1, and the loop
\* calls fn again
DelayElapses ==
    /\ rt.pc = "delay"
    /\ rt' = callFn([rt EXCEPT !.timer = FALSE, !.attempt = @ + 1])
    /\ UNCHANGED <<ex, sp, al, rc, pr>>

\* ========================================================== proactiveRetry
\* proactiveRetry(signal, fn, options): src/unnamed/part_008.  The attempts
\* are numbered from 0, as fn is told; attempt a fulfils with <<"value", a>>
\* or rejects with the error <<name, a>>.

AttemptIds == 0 .. MaxMaxAttempts - 1

\* pr.pc             "idle" before the call, "called" after it
\* pr.outerAborted   signal.aborted
\* pr.innerAborted   innerAbortController.signal.aborted
\* pr.maxAttempts, pr.onError   the options
\* pr.launched       calls of fn: the attempts 0 .. launched - 1
\* pr.st[a], pr.reason[a]   attempt a: "none", "pending", "fulfilled",
\*                   "rejected", and the reason it rejected with
\* pr.promises       the keys of the map `promises`
\* pr.attemptsExhausted   `attemptsExhausted`
\* pr.loop           makeAttempts: "delay" while `await delay(...)` is pending,
\*                   "finished" after the break, "aborted" when delay()
\*                   rejected with an AbortError
\* pr.queue          the reactions of the attempts' then, in the order the
\*                   attempts settled in
\* pr.finished, pr.listening   of execute: `finished`, and its listener is
\*                   registered on signal
\* pr.promise        the promise proactiveRetry returns
\* History (read by the properties only):
\* pr.how            what settled the promise: "none", "call" (signal aborted
\*                   at the call), "abort", "fulfilled", "exhausted", "onError"
\* pr.order          the attempts in the order their handlers ran
\* pr.winner         the first attempt whose handleFulfilled ran (-1: none),
\*                   pr.launchedThen the calls of fn made by then, and
\*                   pr.pendingThen whether the promise was pending then
\* pr.onErrorCalls   calls of onError

ProactiveRetryInit ==
    [pc |-> "idle", outerAborted |-> FALSE, innerAborted |-> FALSE,
     maxAttempts |-> 0, onError |-> "none", launched |-> 0,
     st |-> [a \in AttemptIds |-> "none"],
     reason |-> [a \in AttemptIds |-> <<>>],
     promises |-> {}, attemptsExhausted |-> FALSE, loop |-> "none",
     queue |-> <<>>, finished |-> FALSE, listening |-> FALSE,
     promise |-> AllPending, how |-> "none", order |-> <<>>,
     winner |-> -1, launchedThen |-> 0, pendingThen |-> FALSE,
     onErrorCalls |-> 0]

\* execute.ts:30-37  finish()
prFinish(p) == [p EXCEPT !.finished = TRUE, !.listening = FALSE]

\* execute.ts:40-43  resolve of the executor
prResolve(p, value) ==
    prFinish([p EXCEPT !.promise = resolve(@, value),
                       !.how = IF p.promise.state = "pending"
                               THEN "fulfilled" ELSE @])

\* execute.ts:44-47  reject of the executor
prReject(p, reason, how) ==
    prFinish([p EXCEPT !.promise = reject(@, reason),
                       !.how = IF p.promise.state = "pending" THEN how ELSE @])

innerAbortControllerKept(p) == p

\* innerAbortController.abort(): a pending delay(signal, delayMs) of
\* makeAttempts clears its timer and rejects with an AbortError (delay.ts),
\* which ends makeAttempts (part_008:98, 104).
innerAbortControllerAbort(p) ==
    [p EXCEPT !.innerAborted = TRUE,
              !.loop = IF @ = "delay" THEN "aborted" ELSE @]

\* part_008:50-55  handleFulfilled(value)
handleFulfilled(p, value) ==
    prResolve([innerAbortControllerAbort(p) EXCEPT !.promises = {}], value)

noAttemptInFlight(p) == p.promises = {}

\* part_008:60  attemptsExhausted && promises.size === 0
allAttemptsFailed(p) == p.attemptsExhausted /\ p.promises = {}

\* part_008:57-80  handleRejected(err, attempt)
handleRejected(p, err, attempt) ==
    LET p1 == [p EXCEPT !.promises = @ \ {attempt}]
        p2 == [p1 EXCEPT !.onErrorCalls = @ + 1]
    IN  IF allAttemptsFailed(p1) THEN prReject(p1, err, "exhausted")
        ELSE IF IsAbortReason(err) \/ p1.onError = "none" THEN p1
        ELSE IF p1.onError = "returns" THEN p2
        ELSE prReject([innerAbortControllerAbort(p2) EXCEPT !.promises = {}],
                      err, "onError")

\* part_008:83-101  one turn of the loop of makeAttempts: fn is called, the
\* promise is stored and subscribed to, and the loop breaks or awaits delay()
makeAttempt(p) ==
    LET attempt == p.launched
    IN  [p EXCEPT !.launched = @ + 1,
                  !.st[attempt] = "pending",
                  !.promises = @ \cup {attempt},
                  !.loop = IF attempt + 1 >= p.maxAttempts
                           THEN "finished" ELSE "delay",
                  !.attemptsExhausted = attempt + 1 >= p.maxAttempts]

\* part_008:37-110  proactiveRetry(signal, fn, options), with execute
\* (execute.ts:22-25, 50-75)
ProactiveRetry(maxAttempts, onError) ==
    /\ pr.pc = "idle"
    /\ LET p0 == [pr EXCEPT !.pc = "called", !.maxAttempts = maxAttempts,
                            !.onError = onError]
       IN  pr' = IF p0.outerAborted
                 THEN [p0 EXCEPT !.promise = reject(@, NewAbortError),
                                 !.how = "call"]
                 ELSE [makeAttempt(p0) EXCEPT !.listening = TRUE]
    /\ UNCHANGED <<ex, sp, al, rc, rt>>

\* abort() of the controller of signal: the listener of execute
\* (execute.ts:51-68) calls the abort callback (part_008:106-108), which
\* returns nothing, and rejects with an AbortError.
PrAbort ==
    /\ ~pr.outerAborted
    /\ LET p1 == [pr EXCEPT !.outerAborted = TRUE]
       IN  pr' = IF pr.listening
                 THEN prReject(innerAbortControllerAbort(p1), NewAbortError,
                               "abort")
                 ELSE p1
    /\ UNCHANGED <<ex, sp, al, rc, rt>>

\* The timer of delay() fires: the loop of makeAttempts goes on.
PrDelayElapses ==
    /\ pr.loop = "delay"
    /\ pr' = makeAttempt(pr)
    /\ UNCHANGED <<ex, sp, al, rc, rt>>

\* The promise of attempt a fulfils.
AttemptFulfils(a) ==
    /\ pr.st[a] = "pending"
    /\ pr' = [pr EXCEPT !.st[a] = "fulfilled", !.queue = Append(@, a)]
    /\ UNCHANGED <<ex, sp, al, rc, rt>>

\* The promise of attempt a rejects with an error of the given name.
AttemptRejects(a, name) ==
    /\ pr.st[a] = "pending"
    /\ pr' = [pr EXCEPT !.st[a] = "rejected", !.reason[a] = <<name, a>>,
                        !.queue = Append(@, a)]
    /\ UNCHANGED <<ex, sp, al, rc, rt>>

\* part_008:88  the reaction of promise.then(handleFulfilled, err =>
\* handleRejected(err, attempt)) of the attempt that settled first
AttemptThen ==
    /\ pr.queue # <<>>
    /\ LET a == Head(pr.queue)
           p == [pr EXCEPT !.queue = Tail(@), !.order = Append(@, a)]
           won == [p EXCEPT !.winner = a, !.launchedThen = p.launched,
                           !.pendingThen = p.promise.state = "pending"]
       IN  pr' = IF pr.st[a] = "fulfilled"
                 THEN handleFulfilled(IF p.winner = -1 THEN won ELSE p,
                                      <<"value", a>>)
                 ELSE handleRejected(p, pr.reason[a], a)
    /\ UNCHANGED <<ex, sp, al, rc, rt>>

\* ---------------------------------------------------------- specifications
\* Each specification runs one library call; the variables of the other
\* calls keep their initial values.

InitExecute ==
    ex = ExecuteInit /\ sp = SpawnInit /\ al = AllInit /\ rc = RaceInit /\ rt = RetryInit
    /\ pr = ProactiveRetryInit

NextExecute ==
    \/ \E sync \in SyncChoices, kind \in {"void", "promise"} : Execute(sync, kind)
    \/ Abort
    \/ \E value \in Values : ExecutorResolve(value)
    \/ \E reason \in Reasons : ExecutorReject(reason)
    \/ CallbackFulfils
    \/ \E reason \in Reasons : CallbackRejects(reason)
    \/ CallbackThen

SpecExecute == InitExecute /\ [][NextExecute]_vars

InitSpawn ==
    sp = SpawnInit /\ ex = ExecuteInit /\ al = AllInit /\ rc = RaceInit /\ rt = RetryInit
    /\ pr = ProactiveRetryInit

\* The reactions of the promises of spawn: the steps of the library.
SpawnReactions ==
    \/ CatchAbortError
    \/ RootThen
    \/ CatchError
    \/ Finally
    \/ SpawnFinally
    \/ Settle

\* Failure handling of spawn: up to MaxForks forks, any of which may abort the
\* outer signal while it is started; the user calls abort() of tasks that are
\* running or settled and not yet aborted, and one function is deferred.
NextSpawn ==
    \/ \E syncAbort \in BOOLEAN : Spawn(syncAbort)
    \/ AbortOuter
    \/ \E syncAbort \in BOOLEAN : Fork(syncAbort)
    \/ \E t \in TaskIds : sp.st[t] # "none" /\ ~sp.tAborted[t] /\ TaskAbort(t)
    \/ \E t \in TaskIds : TaskFulfils(t)
    \/ \E t \in TaskIds : TaskRejects(t, Err(t))
    \/ \E t \in TaskIds : TaskRejects(t, AbortError)
    \/ sp.deferredFunctions = 0 /\ Defer
    \/ SpawnReactions
    \/ RunDeferred
    \/ \E i \in DeferIds, ok \in BOOLEAN : DeferredDone(i, ok)

SpecSpawn == InitSpawn /\ [][NextSpawn]_vars

\* Deferred functions: up to MaxDefers functions are deferred, while tasks are
\* live, after the live set has emptied, or after spawn has settled; the
\* outer signal is aborted only between the calls into the library.
NextSpawnDefer ==
    \/ Spawn(FALSE)
    \/ AbortOuter
    \/ Fork(FALSE)
    \/ \E t \in TaskIds : TaskFulfils(t)
    \/ \E t \in TaskIds : TaskRejects(t, Err(t))
    \/ \E t \in TaskIds : TaskRejects(t, AbortError)
    \/ Defer
    \/ SpawnReactions
    \/ RunDeferred
    \/ \E i \in DeferIds, ok \in BOOLEAN : DeferredDone(i, ok)

SpecSpawnDefer == InitSpawn /\ [][NextSpawnDefer]_vars

\* Tasks of fork: up to MaxForks forks, before and after the spawn-local
\* signal is aborted; the user calls abort() of any task fork has returned,
\* up to MaxAborts times on tasks that are aborted already, next to the calls
\* that abortTasks makes.  A task fulfils or, once aborted, rejects with
\* AbortError.
NextSpawnTask ==
    \/ Spawn(FALSE)
    \/ AbortOuter
    \/ Fork(FALSE)
    \/ \E t \in TaskIds : TaskAbort(t)
    \/ \E t \in TaskIds : TaskFulfils(t)
    \/ \E t \in TaskIds : TaskRejects(t, AbortError)
    \/ SpawnReactions

SpecSpawnTask == InitSpawn /\ [][NextSpawnTask]_vars

\* Liveness of spawn.  The host runs the queued reactions; a task whose signal
\* is aborted rejects with AbortError in the end if it has not settled
\* otherwise; a deferred function that was started completes.
SpawnFairness ==
    /\ WF_vars(SpawnReactions)
    /\ WF_vars(RunDeferred)
    /\ \A t \in TaskIds : WF_vars(sp.tAborted[t] /\ TaskRejects(t, AbortError))
    /\ \A i \in DeferIds : WF_vars(DeferredDone(i, TRUE))

SpecSpawnLive == InitSpawn /\ [][NextSpawn]_vars /\ SpawnFairness

SpecSpawnDeferLive == InitSpawn /\ [][NextSpawnDefer]_vars /\ SpawnFairness

InitAll ==
    al = AllInit /\ ex = ExecuteInit /\ sp = SpawnInit /\ rc = RaceInit /\ rt = RetryInit
    /\ pr = ProactiveRetryInit

NextAll ==
    \/ \E n \in 0 .. MaxInputs, syncAbort \in BOOLEAN : All(n, syncAbort)
    \/ AllAbort
    \/ \E i \in InputIds : InputFulfils(i)
    \/ \E i \in InputIds, name \in ErrorNames : InputRejects(i, name)
    \/ InputThen

SpecAll == InitAll /\ [][NextAll]_vars

InitRace ==
    rc = RaceInit /\ ex = ExecuteInit /\ sp = SpawnInit /\ al = AllInit /\ rt = RetryInit
    /\ pr = ProactiveRetryInit

NextRace ==
    \/ \E n \in 0 .. MaxInputs, syncAbort \in BOOLEAN : Race(n, syncAbort)
    \/ RaceAbort
    \/ \E i \in InputIds : RaceInputFulfils(i)
    \/ \E i \in InputIds, name \in ErrorNames : RaceInputRejects(i, name)
    \/ RaceInputThen

SpecRace == InitRace /\ [][NextRace]_vars

\* The inputs of race obey the abortable-function protocol (race.ts:14-16):
\* once the inner signal is aborted a pending input rejects with an AbortError
\* in the end; and the host runs the reactions that are queued.
SpecRaceAbortable ==
    /\ InitRace
    /\ [][NextRace]_vars
    /\ WF_vars(RaceInputThen)
    /\ \A i \in InputIds :
          WF_vars(rc.innerAborted /\ RaceInputRejects(i, AbortError))

InitRetry ==
    rt = RetryInit /\ ex = ExecuteInit /\ sp = SpawnInit /\ al = AllInit /\ rc = RaceInit
    /\ pr = ProactiveRetryInit

NextRetry ==
    \/ \E maxAttempts \in 1 .. MaxMaxAttempts, baseMs \in BaseMsValues,
          maxDelayMs \in MaxDelayMsValues, onError \in OnErrorKinds :
          Retry(maxAttempts, baseMs, maxDelayMs, onError)
    \/ RetryAbort
    \/ Reset
    \/ FnFulfils
    \/ \E name \in ErrorNames, random \in RandomQuarters : FnRejects(name, random)
    \/ DelayElapses

SpecRetry == InitRetry /\ [][NextRetry]_vars

InitProactiveRetry ==
    pr = ProactiveRetryInit /\ ex = ExecuteInit /\ sp = SpawnInit
       /\ al = AllInit /\ rc = RaceInit /\ rt = RetryInit

NextProactiveRetry ==
    \/ \E maxAttempts \in 1 .. MaxMaxAttempts, onError \in OnErrorKinds :
          ProactiveRetry(maxAttempts, onError)
    \/ PrAbort
    \/ PrDelayElapses
    \/ \E a \in AttemptIds : AttemptFulfils(a)
    \/ \E a \in AttemptIds, name \in ErrorNames : AttemptRejects(a, name)
    \/ AttemptThen

SpecProactiveRetry == InitProactiveRetry /\ [][NextProactiveRetry]_vars

\* ------------------------------------------------------ execute: properties

\* C1: execute called with an already aborted signal rejects with AbortError,
\* never invokes the executor, and neither adds nor removes a listener on the
\* signal (in every later state as well).
C1_AbortedBeforeExecute ==
    (ex.pc = "called" /\ ex.abortedAtCall) =>
        /\ Rejected(ex.promise, AbortError)
        /\ ex.executorCalls = 0
        /\ ex.added = 0
        /\ ex.removed = 0

C1_Witness == ex.pc = "called" /\ ex.abortedAtCall

\* C2: if resolve or reject is called before the abort event reaches the
\* listener, the promise is settled with exactly that value or reason and the
\* abort callback is never invoked, whatever happens afterwards (later
\* completion calls, an abort right after the completion).
C2_CompletionFirst ==
    /\ ex.first = "resolve" =>
          Fulfilled(ex.promise, ex.firstValue) /\ ex.callbackCalls = 0
    /\ ex.first = "reject" =>
          Rejected(ex.promise, ex.firstValue) /\ ex.callbackCalls = 0

\* resolve was called after execute returned, then the signal was aborted
C2_Witness ==
    /\ ex.first = "resolve"
    /\ ~ex.syncDone
    /\ ex.aborted

C4_AbortFirstAsyncCallback ==
    (ex.first = "abort" /\ ex.cbKind = "promise" /\ ex.completions = 0) =>
        /\ ex.callbackCalls = 1
        /\ ex.callbackResult # "handled" => ex.promise.state = "pending"
        /\ (ex.callbackResult = "handled" /\ ex.cbReason = "none") =>
              Rejected(ex.promise, AbortError)
        /\ (ex.callbackResult = "handled" /\ ex.cbReason # "none") =>
              Rejected(ex.promise, ex.cbReason)

\* the cleanup promise rejected and execute has taken its reason
C4_Witness ==
    /\ ex.first = "abort"
    /\ ex.cbKind = "promise"
    /\ ex.completions = 0
    /\ ex.callbackResult = "handled"
    /\ ex.cbReason # "none"

\* C5: the listener is added at most once and removed at most once; once the
\* promise has settled the two counts are equal; both are zero when the signal
\* was already aborted or the executor completed before returning, and both are
\* one otherwise.
C5_ListenerBalance ==
    /\ ex.added <= 1
    /\ ex.removed <= ex.added
    /\ ex.promise.state # "pending" => ex.removed = ex.added
    /\ (ex.pc = "called" /\ (ex.abortedAtCall \/ ex.syncDone)) =>
          ex.added = 0 /\ ex.removed = 0
    /\ (ex.pc = "called" /\ ~ex.abortedAtCall /\ ~ex.syncDone) =>
          /\ ex.added = 1
          /\ ex.promise.state # "pending" => ex.removed = 1

\* settled after a subscription, with the completion callbacks called twice
C5_Witness ==
    /\ ex.promise.state # "pending"
    /\ ex.added = 1
    /\ ex.removed = 1
    /\ ex.completions = 2

\* -------------------------------------------------------- spawn: properties

Registered == {t \in TaskIds : sp.st[t] # "none"}

Genuine == {t \in Registered : sp.st[t] = "rejected" /\ ~isAbortError(sp.reason[t])}

\* C6: the promise returned by spawn (and the promise of line 158 it follows)
\* is settled only in states where the set of live tasks is empty and the root
\* and every task registered through fork have settled.
C6_SettlesAfterAllTasks ==
    (sp.out.state # "pending" \/ sp.promise.state # "pending") =>
        /\ sp.tasks = {}
        /\ \A t \in TaskIds : sp.st[t] # "running"

\* spawn has settled after the root and two registered forks
C6_Witness ==
    /\ sp.out.state # "pending"
    /\ Registered = {0, 1, 2}

\* C7: once a handler of the root's settlement has run, the spawn-local signal
\* is aborted and every fork still in the live set has its signal aborted.
C7_RootSettlementAbortsForks ==
    sp.rootHandled =>
        /\ sp.spawnAborted
        /\ \A t \in sp.tasks \ {0} : sp.tAborted[t]

\* C8: once the error of a forked function has been caught, the spawn-local
\* signal is aborted and the root and all other live forks have their signals
\* aborted; and when that error is the only one that is not an AbortError,
\* spawn rejects with it.
C8_ForkErrorAbortsAll ==
    /\ \A t \in sp.caught \ {0} :
          /\ sp.spawnAborted
          /\ \A u \in sp.tasks \ {t} : sp.tAborted[u]
    /\ \A t \in Genuine \ {0} :
          (Genuine = {t} /\ sp.promise.state # "pending") =>
              Rejected(sp.promise, Err(t))

\* C9 (as claimed): the outcome of the promise of line 158 is the root's value
\* unless a failure that is not an AbortError was recorded, and then it is that
\* failure; an AbortError is never the outcome.
C9_AbortErrorNeverSurfaces ==
    sp.promise.state # "pending" =>
        /\ IF sp.failure # "none" /\ ~isAbortError(sp.failure)
           THEN Rejected(sp.promise, sp.failure)
           ELSE Fulfilled(sp.promise, Val(0))
        /\ ~Rejected(sp.promise, AbortError)

\* C9 (amended): the outcome is the root's value unless a failure was
\* recorded; it is an error that is not an AbortError whenever some task
\* rejected with one, and it is AbortError exactly when the root rejected with
\* AbortError and no task rejected with another error, so that the AbortError
\* of a fork is never the outcome.
C9_OutcomeOfSpawn ==
    sp.promise.state # "pending" =>
        /\ Genuine # {} =>
              /\ sp.promise.state = "rejected"
              /\ sp.promise.value \in {Err(t) : t \in Genuine}
              /\ sp.promise.value = sp.failure
        /\ (Genuine = {} /\ sp.st[0] = "rejected") =>
              Rejected(sp.promise, AbortError)
        /\ (Genuine = {} /\ sp.st[0] # "rejected") =>
              /\ sp.st[0] = "fulfilled"
              /\ Fulfilled(sp.promise, Val(0))

\* the root fulfilled while a fork it had started rejected with AbortError
C9_Witness ==
    /\ Fulfilled(sp.promise, Val(0))
    /\ \E t \in Registered \ {0} : sp.st[t] = "rejected" /\ isAbortError(sp.reason[t])

\* C10: when several tasks reject with errors that are not AbortErrors, spawn
\* surfaces the error of the task that settled first.
C10_FirstFailureWins ==
    (sp.promise.state # "pending" /\ sp.firstGenuine # "none") =>
        Rejected(sp.promise, sp.firstGenuine)

Settled(i) == sp.deferSt[i] \in {"ok", "failed"}

Failed == {i \in DeferIds : sp.deferSt[i] = "failed"}

\* C11: deferred functions start in the reverse of the order they were
\* registered in, and one at a time: when a deferred function starts, the
\* promise of every deferred function started before it has settled, so at most
\* one is in progress in any state.
C11_DeferredReverseSerial ==
    /\ Cardinality({i \in DeferIds : sp.deferSt[i] = "running"}) <= 1
    /\ \A k \in 1 .. Len(sp.deferOrder) :
          /\ k > 1 => sp.deferOrder[k - 1] > sp.deferOrder[k]
          /\ k < Len(sp.deferOrder) => Settled(sp.deferOrder[k])
    /\ (sp.deferOrder # <<>> /\ sp.deferLive # {}) =>
          \A i \in sp.deferLive : i <= sp.deferOrder[1]

\* the function registered second has run and settled, the first is running
C11_Witness ==
    /\ sp.deferOrder = <<2, 1>>
    /\ sp.deferSt[1] = "running"

\* C12: a function passed to defer while a task was live is invoked exactly
\* once by the time the promise returned by spawn settles, and has completed by
\* then; no deferred function is invoked twice; and a deferred function starts
\* only in states where the live set is empty and no task is running.
C12_DeferredRunOnceAfterTasks ==
    /\ \A i \in DeferIds :
          /\ sp.deferCalls[i] <= 1
          /\ sp.deferSt[i] # "none" =>
                /\ sp.tasks = {}
                /\ \A t \in TaskIds : sp.st[t] # "running"
    /\ sp.out.state # "pending" =>
          \A i \in sp.deferLive : sp.deferCalls[i] = 1 /\ Settled(i)

\* spawn has settled after two functions deferred while a fork was registered
C12_Witness ==
    /\ sp.out.state # "pending"
    /\ sp.deferLive = {1, 2}
    /\ sp.st[1] # "none"

\* C13: when a deferred function has failed, the promise returned by spawn
\* rejects with the failure of a deferred function (of the one that failed
\* last, which is the only one when one failed), whether the promise of line
\* 158 fulfilled with the root's value or rejected with the recorded failure.
C13_DeferFailureReplacesOutcome ==
    (sp.out.state # "pending" /\ Failed # {}) =>
        /\ \A i \in Failed : (\A j \in Failed : i <= j) =>
              Rejected(sp.out, DeferErr(i))
        /\ sp.promise.state \in {"fulfilled", "rejected"}

\* the recorded failure of a task is replaced by the failure of a deferred
\* function
C13_Witness ==
    /\ sp.promise.state = "rejected"
    /\ Failed = {1}
    /\ Rejected(sp.out, DeferErr(1))

\* the root's value is replaced by the failure of a deferred function
C13_WitnessFulfilled ==
    /\ sp.promise.state = "fulfilled"
    /\ Failed = {2}
    /\ Rejected(sp.out, DeferErr(2))

\* C14: a call of fork made when the spawn-local signal was aborted returns an
\* already-aborted task: the function given to it is never invoked, no task is
\* added to the live set, abort() of the returned task changes nothing (no
\* signal is aborted, no abort event dispatched) and its join() is a promise
\* rejected with AbortError.
C14_ForkAfterAbortIsStub ==
    /\ sp.lateForks = sp.stubs
    /\ \A t \in sp.lateForks :
          /\ sp.st[t] = "none"
          /\ t \notin sp.tasks
          /\ ~sp.tAborted[t]
          /\ sp.abortEvents[t] = 0
          /\ Rejected(join(sp, t), AbortError)

\* fork was called after the spawn-local signal was aborted and abort() of the
\* task it returned has been called
C14_Witness ==
    \E t \in sp.lateForks : sp.abortAgain[t] > 0

\* C15: spawn called with an already aborted signal rejects with AbortError,
\* never invokes the spawned function, and adds and removes no listener (on
\* the signal given to it; on the spawn-local signal, which it never makes).
C15_AbortedBeforeSpawn ==
    (sp.pc = "called" /\ sp.abortedAtCall) =>
        /\ Rejected(sp.out, AbortError)
        /\ sp.fnCalls = 0
        /\ sp.st[0] = "none"
        /\ sp.outerAdded = 0 /\ sp.outerRemoved = 0
        /\ sp.spawnAdded = 0 /\ sp.spawnRemoved = 0

C15_Witness == sp.pc = "called" /\ sp.abortedAtCall

\* C16: a spawn call that passed the already-aborted check adds exactly one
\* listener to the outer signal and one to the spawn-local signal and removes
\* each at most once; no removal happens while a task is live, and both have
\* happened, once each, when a deferred function has started or the promise
\* returned by spawn has settled.
C16_ListenersOfSpawn ==
    (sp.pc = "called" /\ ~sp.abortedAtCall) =>
        /\ sp.outerAdded = 1 /\ sp.spawnAdded = 1
        /\ sp.outerRemoved <= 1 /\ sp.spawnRemoved <= 1
        /\ (sp.outerRemoved > 0 \/ sp.spawnRemoved > 0) =>
              /\ sp.tasks = {}
              /\ sp.promise.state # "pending"
        /\ (sp.out.state # "pending" \/ \E i \in DeferIds : sp.deferSt[i] # "none") =>
              /\ sp.outerRemoved = 1 /\ sp.spawnRemoved = 1
              /\ ~sp.outerListening /\ ~sp.spawnListening

\* both listeners are removed and the deferred function has not yet started
C16_Witness ==
    /\ sp.outerRemoved = 1 /\ sp.spawnRemoved = 1
    /\ sp.deferChain = <<1>>
    /\ sp.deferSt[1] = "none"

\* C17: calling abort() of a fork's task again is the same as not calling it:
\* the signal of a task dispatches its abort event at most once, however often
\* abort() is called by the user and by abortTasks, and a step in which the
\* user calls abort() of a task that is aborted already leaves every part of
\* the state of the spawn call as it was (only the count of such calls grows).
C17_TaskAbortIdempotent ==
    /\ [](\A t \in TaskIds :
             /\ sp.abortEvents[t] <= 1
             /\ sp.abortEvents[t] = IF sp.tAborted[t] THEN 1 ELSE 0)
    /\ [][\A t \in TaskIds :
             sp'.abortAgain[t] # sp.abortAgain[t] =>
                 sp' = [sp EXCEPT !.abortAgain[t] = @ + 1]]_vars

\* abort() of a running task has been called again, twice, by the user
C17_Witness ==
    \E t \in TaskIds :
        /\ sp.abortAgain[t] = 2
        /\ sp.tAborted[t]
        /\ sp.st[t] = "running"

\* ---------------------------------------------------------- all: properties

\* The reasons of the rejections in the order `all` observed them.
Observed ==
    SelectSeq([k \in 1 .. Len(al.order) |-> al.inReason[al.order[k]]],
              LAMBDA r : r # <<>>)

\* The failure priority rule over the observed rejections: the first that is
\* not an AbortError if there is one, else the first.
Chosen(rs) ==
    LET genuine == SelectSeq(rs, LAMBDA r : ~IsAbortReason(r))
    IN  IF genuine # <<>> THEN Head(genuine) ELSE Head(rs)

\* C18: with a non-empty input, the promise all returns is pending while any
\* input is pending or its handler has not yet run, whether the outer signal
\* was aborted or an input rejected.
C18_AllWaitsForEveryInput ==
    (al.pc = "called" /\ ~al.abortedAtCall /\ al.n > 0
        /\ al.promise.state # "pending") =>
        /\ \A i \in 1 .. al.n : al.inSt[i] \in {"fulfilled", "rejected"}
        /\ Len(al.order) = al.n
        /\ al.queue = <<>>

\* all has settled after the outer signal was aborted and input 2 rejected
\* while the inputs 3 and 1 were pending
C18_Witness ==
    /\ al.promise.state # "pending"
    /\ al.n = 3
    /\ al.outerAborted
    /\ al.order = <<2, 3, 1>>
    /\ al.inSt[2] = "rejected"

\* C19: when an input has rejected, all rejects with the first observed reason
\* that is not an AbortError if there is one, whether AbortErrors were observed
\* before or after it, and else with the first observed AbortError.
C19_FailurePriority ==
    (al.promise.state # "pending" /\ Observed # <<>>) =>
        /\ Rejected(al.promise, Chosen(Observed))
        /\ (\E k \in 1 .. Len(Observed) : ~IsAbortReason(Observed[k])) =>
              ~IsAbortReason(al.promise.value)

\* an AbortError was observed first, then the errors of the inputs 1 and 2
C19_Witness ==
    /\ al.promise.state = "rejected"
    /\ al.n = 3
    /\ al.order = <<3, 1, 2>>
    /\ \A i \in 1 .. 3 : al.inSt[i] = "rejected"
    /\ IsAbortReason(al.inReason[3])
    /\ ~IsAbortReason(al.inReason[1])
    /\ ~IsAbortReason(al.inReason[2])

\* C20: when every input has fulfilled, all fulfils with the array whose i-th
\* element is the value of input i, in whatever order the inputs fulfilled.
C20_ResultsByPosition ==
    (al.pc = "called" /\ ~al.abortedAtCall /\ al.n > 0
        /\ \A i \in 1 .. al.n : al.inSt[i] = "fulfilled"
        /\ al.queue = <<>>) =>
        Fulfilled(al.promise, [i \in 1 .. al.n |-> InVal(i)])

\* three inputs fulfilled, the last one first
C20_Witness ==
    /\ al.promise.state = "fulfilled"
    /\ al.order = <<3, 1, 2>>

\* An input whose rejection handler has run.
RejectionObserved ==
    \E k \in 1 .. Len(al.order) : al.inSt[al.order[k]] = "rejected"

\* C21: while all is pending its inner signal is aborted exactly when the
\* outer signal has been aborted or the rejection of some input has been
\* observed (so the abort of the outer signal aborts the inner one in the same
\* step, and fulfilments alone never do).
C21_InnerAbortedIff ==
    (al.pc = "called" /\ ~al.abortedAtCall /\ al.n > 0
        /\ al.promise.state = "pending") =>
        (al.innerAborted <=> (al.outerAborted \/ RejectionObserved))

\* C21 without an abort of the outer signal from inside the executor.
C21_InnerAbortedIffAfterCall ==
    (al.pc = "called" /\ ~al.abortedAtCall /\ al.n > 0
        /\ al.promise.state = "pending" /\ ~al.abortedInExecutor) =>
        (al.innerAborted <=> (al.outerAborted \/ RejectionObserved))

\* C22: all whose executor returns an empty array is fulfilled with the empty
\* array, and no listener is ever added to or removed from the outer signal.
C22_EmptyInput ==
    (al.pc = "called" /\ ~al.abortedAtCall /\ al.n = 0) =>
        /\ Fulfilled(al.promise, <<>>)
        /\ al.added = 0 /\ al.removed = 0
        /\ ~al.listening

\* the executor returned an empty array and the outer signal was aborted later
C22_Witness ==
    /\ al.pc = "called" /\ ~al.abortedAtCall /\ al.n = 0
    /\ al.executorCalls = 1
    /\ al.outerAborted /\ ~al.abortedInExecutor

\* --------------------------------------------------------- race: properties
RaceCalled == rc.pc = "called" /\ ~rc.abortedAtCall

RaceDone == RaceCalled /\ rc.promise.state # "pending"

\* The positions, in the order the handlers ran, of the handled fulfilments.
RaceFulfilments ==
    {k \in 1 .. Len(rc.order) : rc.inSt[rc.order[k]] = "fulfilled"}

\* The first input, in the order the handlers ran, that fulfilled.
RaceFirstFulfilment ==
    CHOOSE k \in RaceFulfilments : \A j \in RaceFulfilments : k <= j

\* The reasons of the inputs, in the order the handlers ran (<<>> for an input
\* that fulfilled).
RaceReasons == [k \in 1 .. Len(rc.order) |-> rc.inReason[rc.order[k]]]

\* C23: while race is pending its inner signal is aborted exactly when the
\* outer signal has been aborted or the settlement (fulfilment or rejection)
\* of some input has been observed.
C23_RaceInnerAbortedIff ==
    (RaceCalled /\ rc.promise.state = "pending") =>
        (rc.innerAborted <=> (rc.outerAborted \/ rc.order # <<>>))

\* C23 without an abort of the outer signal from inside the executor.
C23_RaceInnerAbortedIffAfterCall ==
    (RaceCalled /\ rc.promise.state = "pending" /\ ~rc.abortedInExecutor) =>
        (rc.innerAborted <=> (rc.outerAborted \/ rc.order # <<>>))

\* C24: with a non-empty input the promise race returns settles only when the
\* handler of every input has run, and the listener of the outer signal, added
\* once, is removed once, at that time and not before.
C24_RaceWaitsForEveryInput ==
    (RaceCalled /\ rc.n > 0) =>
        /\ rc.added = 1
        /\ rc.promise.state = "pending" => (rc.removed = 0 /\ rc.listening)
        /\ rc.promise.state # "pending" =>
              /\ \A i \in 1 .. rc.n : rc.inSt[i] \in {"fulfilled", "rejected"}
              /\ Len(rc.order) = rc.n /\ rc.queue = <<>>
              /\ rc.removed = 1 /\ ~rc.listening

\* input 2 fulfilled first, the outer signal was aborted, the others settled
C24_Witness ==
    /\ RaceDone
    /\ rc.n = 3
    /\ rc.outerAborted /\ ~rc.abortedInExecutor
    /\ rc.order = <<2, 3, 1>>
    /\ rc.inSt[2] = "fulfilled"
    /\ rc.removed = 1

\* C25: whenever at least one input fulfils, race fulfils with the value of
\* the first input to fulfil, whatever rejections were observed before or
\* after it.
C25_FulfilmentOutranksFailure ==
    (RaceDone /\ RaceFulfilments # {}) =>
        Fulfilled(rc.promise, RaceVal(rc.order[RaceFirstFulfilment]))

\* C25, amended: when at least one input fulfils, race fulfils with the value
\* of the first input to fulfil unless a rejection was observed before that
\* fulfilment or a rejection that is not an AbortError was observed at any
\* time; in those cases race rejects.
C25_FulfilmentUnlessFailure ==
    (RaceDone /\ RaceFulfilments # {}) =>
        IF \E j \in 1 .. Len(rc.order) :
              /\ rc.inSt[rc.order[j]] = "rejected"
              /\ (j < RaceFirstFulfilment \/ ~IsAbortReason(RaceReasons[j]))
        THEN rc.promise.state = "rejected"
        ELSE Fulfilled(rc.promise, RaceVal(rc.order[RaceFirstFulfilment]))

\* input 2 fulfilled first and the error of input 1 was observed after it
C25_Witness ==
    /\ RaceDone
    /\ rc.n = 3
    /\ rc.order = <<2, 1, 3>>
    /\ rc.inSt[2] = "fulfilled" /\ rc.inSt[1] = "rejected"
    /\ ~IsAbortReason(rc.inReason[1])
    /\ Rejected(rc.promise, rc.inReason[1])

\* C26: when every input rejects, race rejects with the first observed reason
\* that is not an AbortError if there is one, even if an AbortError was
\* recorded before it, and with the first AbortError otherwise.
C26_RaceFailurePriority ==
    (RaceDone /\ rc.n > 0 /\ \A i \in 1 .. rc.n : rc.inSt[i] = "rejected") =>
        Rejected(rc.promise, Chosen(RaceReasons))

\* an AbortError was recorded first, then the errors of the inputs 1 and 2
C26_Witness ==
    /\ RaceDone
    /\ rc.n = 3
    /\ rc.order = <<3, 1, 2>>
    /\ \A i \in 1 .. 3 : rc.inSt[i] = "rejected"
    /\ IsAbortReason(rc.inReason[3])
    /\ ~IsAbortReason(rc.inReason[1])
    /\ ~IsAbortReason(rc.inReason[2])
    /\ Rejected(rc.promise, <<"Error", 1>>)

\* C27: if the first input to settle fulfils and every other input then
\* rejects with an AbortError, race fulfils with the value of that input.
C27_WinnerThenCancelledLosers ==
    (/\ RaceDone /\ rc.n > 0
     /\ rc.inSt[rc.order[1]] = "fulfilled"
     /\ \A k \in 2 .. Len(rc.order) :
           /\ rc.inSt[rc.order[k]] = "rejected"
           /\ IsAbortReason(RaceReasons[k])) =>
        Fulfilled(rc.promise, RaceVal(rc.order[1]))

\* input 2 fulfilled, then the inputs 1 and 3 rejected with an AbortError
C27_Witness ==
    /\ RaceDone
    /\ rc.n = 3
    /\ rc.order = <<2, 1, 3>>
    /\ rc.inSt[2] = "fulfilled"
    /\ rc.inSt[1] = "rejected" /\ IsAbortReason(rc.inReason[1])
    /\ rc.inSt[3] = "rejected" /\ IsAbortReason(rc.inReason[3])
    /\ rc.innerAborted

\* -------------------------------------------------------- retry: properties
\* C28: a call of fn that rejects with an AbortError ends retry at once: retry
\* rejects with that error, fn is not called again, onError is not called for
\* it and no delay is computed or started.
C28_AbortErrorNotRetried ==
    (rt.failures > 0 /\ IsAbortReason(rt.last.error)) =>
        /\ rt.pc = "done" /\ Rejected(rt.promise, rt.last.error)
        /\ Len(rt.attempts) = rt.failures
        /\ ~rt.last.onError
        /\ rt.onErrorCalls = (IF rt.onError = "none" THEN 0 ELSE rt.failures - 1)
        /\ rt.last.delayMs = -1 /\ ~rt.last.timer /\ ~rt.timer

\* the first call failed and was retried after a delay, the second rejected
\* with an AbortError
C28_Witness ==
    /\ rt.failures = 2
    /\ rt.onError = "returns"
    /\ rt.onErrorCalls = 1 /\ rt.timers = 1
    /\ IsAbortReason(rt.last.error)
    /\ Rejected(rt.promise, rt.last.error)

\* C29: without reset(), fn is called at most maxAttempts times, and when
\* every call fails with an error that is not an AbortError retry rejects
\* with the last error after exactly maxAttempts calls.
C29_AtMostMaxAttempts ==
    (rt.pc # "idle" /\ rt.resets = 0) =>
        /\ Len(rt.attempts) <= rt.maxAttempts
        /\ (rt.pc = "done" /\ rt.failures = Len(rt.attempts)
              /\ ~IsAbortReason(rt.promise.value) /\ rt.onError # "rethrows") =>
              /\ Len(rt.attempts) = rt.maxAttempts
              /\ Rejected(rt.promise, rt.last.error)

\* What the code does: one call more than maxAttempts.
C29_AtMostMaxAttemptsPlusOne ==
    (rt.pc # "idle" /\ rt.resets = 0) =>
        /\ Len(rt.attempts) <= rt.maxAttempts + 1
        /\ (rt.pc = "done" /\ rt.failures = Len(rt.attempts)
              /\ ~IsAbortReason(rt.promise.value) /\ rt.onError # "rethrows") =>
              /\ Len(rt.attempts) = rt.maxAttempts + 1
              /\ Rejected(rt.promise, rt.last.error)

\* C30: when fn has called reset() during a call that then fails with an error
\* that is not an AbortError, the delay computed is 0, no timer is started, and
\* (unless onError rethrows) fn is called again in the same step with attempt
\* number 0.
C30_ResetMakesNextAttemptImmediate ==
    (rt.failures > 0 /\ rt.last.reset /\ ~IsAbortReason(rt.last.error)) =>
        /\ rt.last.delayMs = 0
        /\ ~rt.last.timer /\ ~rt.timer
        /\ rt.onError # "rethrows" =>
              /\ Len(rt.attempts) = rt.failures + 1
              /\ rt.attempts[rt.failures + 1] = 0

\* the second call, made with attempt number 1 and a base of 1000 ms, called
\* reset() and failed; the third call was made with attempt number 0
C30_Witness ==
    /\ rt.failures = 2
    /\ rt.baseMs = 1000
    /\ rt.attempts = <<0, 1, 0>>
    /\ rt.last.reset /\ ~IsAbortReason(rt.last.error)
    /\ rt.last.attempt = -1
    /\ rt.timers = 1

\* C31: the delay computed after the failure of the call made with attempt
\* number a >= 0 lies in [backoff / 2, backoff] with
\* backoff = min(maxDelayMs, baseMs * 2^a): it never exceeds maxDelayMs.
C31_DelayWithinHalfJitter ==
    (rt.failures > 0 /\ rt.last.attempt >= 0 /\ rt.last.delayMs # -1) =>
        LET b == Min(rt.maxDelayMs, rt.baseMs * (2 ^ rt.last.attempt))
        IN  /\ 2 * rt.last.delayMs >= b
            /\ rt.last.delayMs <= b
            /\ rt.last.delayMs <= rt.maxDelayMs

\* the call made with attempt number 1 failed: the backoff of 2000 ms is capped
\* at 1500 ms and Math.random() = 3/4 gives round(1312.5) = 1313 ms
C31_Witness ==
    /\ rt.failures = 2
    /\ rt.baseMs = 1000 /\ rt.maxDelayMs = 1500
    /\ rt.last.attempt = 1
    /\ rt.last.delayMs = 1313
    /\ rt.last.timer

\* ------------------------------------------------- execute: abort, then done
\* C34: once the listener of execute has run before any completion callback,
\* the promise is pending, rejected with an AbortError, or rejected with the
\* reason the promise of the abort callback rejected with; a completion
\* callback called while that promise is pending does not settle it.
C34_AbortOutcomeIsFinal ==
    ex.first = "abort" =>
        \/ ex.promise.state = "pending" /\ ex.callbackResult # "handled"
        \/ Rejected(ex.promise, AbortError)
        \/ ex.callbackResult = "handled" /\ Rejected(ex.promise, ex.cbReason)

\* C34 for an abort callback that returns nothing.
C34_AbortOutcomeIsFinalSync ==
    (ex.first = "abort" /\ ex.cbKind = "void") => Rejected(ex.promise, AbortError)

\* ----------------------------------------------- proactiveRetry: properties
\* C32: once handleFulfilled has run for an attempt, the inner signal is
\* aborted, makeAttempts has ended and fn is not called again; if the promise
\* of proactiveRetry was pending at that time it is fulfilled with the value of
\* that attempt.
C32_FirstSuccessWins ==
    pr.winner # -1 =>
        /\ pr.innerAborted
        /\ pr.loop \in {"finished", "aborted"}
        /\ pr.launched = pr.launchedThen
        /\ pr.promises = {}
        /\ pr.pendingThen => Fulfilled(pr.promise, <<"value", pr.winner>>)

\* attempt 0 is in flight, attempt 1 fulfilled and a third attempt was due
C32_Witness ==
    /\ pr.winner = 1 /\ pr.pendingThen
    /\ pr.maxAttempts > 2
    /\ pr.launched = 2
    /\ pr.st[0] = "pending"
    /\ ~pr.outerAborted
    /\ pr.promise.state = "fulfilled"

\* C33: fn is called at most maxAttempts times; unless the outer signal is
\* aborted or onError throws, the promise of proactiveRetry is rejected only
\* when maxAttempts attempts have been made, all of them have rejected and
\* their handlers have run, and then with the error of the attempt whose
\* handler ran last.
C33_RejectsWhenExhausted ==
    /\ pr.pc = "called" => pr.launched <= pr.maxAttempts
    /\ (pr.promise.state = "rejected" /\ ~pr.outerAborted
          /\ pr.onError # "rethrows") => pr.how = "exhausted"
    /\ pr.how = "exhausted" =>
          /\ pr.launched = pr.maxAttempts
          /\ \A a \in 0 .. pr.launched - 1 : pr.st[a] = "rejected"
          /\ Len(pr.order) >= pr.launched
          /\ Rejected(pr.promise, pr.reason[pr.order[pr.launched]])

\* two attempts were made; the first to be made was the last to reject
C33_Witness ==
    /\ pr.how = "exhausted"
    /\ pr.maxAttempts = 2
    /\ pr.order = <<1, 0>>
    /\ ~pr.outerAborted
    /\ pr.onError = "returns" /\ pr.onErrorCalls = 1
    /\ Rejected(pr.promise, <<"Error", 0>>)

\* ------------------------------------------------------------ race: liveness
\* No input has fulfilled or rejected with an error that is not an AbortError.
NoInputWon ==
    \A i \in InputIds :
        /\ rc.inSt[i] # "fulfilled"
        /\ rc.inSt[i] = "rejected" => IsAbortReason(rc.inReason[i])

RaceRejectedWithAbortError ==
    rc.promise.state = "rejected" /\ IsAbortReason(rc.promise.value)

\* C36: whatever the number of inputs, when the outer signal is aborted while
\* race is pending, race rejects with an AbortError in the end unless some
\* input fulfils or rejects with an error that is not an AbortError.
C36_AbortedRaceRejects ==
    (RaceCalled /\ rc.outerAborted /\ rc.promise.state = "pending")
        ~> (RaceRejectedWithAbortError \/ ~NoInputWon)

\* C36 for a call with at least one input whose executor does not abort the
\* outer signal.
C36_AbortedRaceRejectsAfterCall ==
    (RaceCalled /\ rc.outerAborted /\ rc.promise.state = "pending"
        /\ rc.n > 0 /\ ~rc.abortedInExecutor)
        ~> (RaceRejectedWithAbortError \/ ~NoInputWon)

\* C36 for a call with at least one input.
C36_AbortedRaceRejectsNonEmpty ==
    (RaceCalled /\ rc.outerAborted /\ rc.promise.state = "pending" /\ rc.n > 0)
        ~> (RaceRejectedWithAbortError \/ ~NoInputWon)

\* C36 for a call whose executor does not abort the outer signal.
C36_AbortedRaceRejectsNoSyncAbort ==
    (RaceCalled /\ rc.outerAborted /\ rc.promise.state = "pending"
        /\ ~rc.abortedInExecutor)
        ~> (RaceRejectedWithAbortError \/ ~NoInputWon)

\* ----------------------------------------------- spawn: abort and live tasks
\* C38: in every state in which the spawn-local signal is aborted, the signal
\* of every task in the live set is aborted, whenever the task was registered.
C38_LiveTasksAborted ==
    sp.spawnAborted => \A t \in sp.tasks : sp.tAborted[t]

\* C37: abort() of the task of one fork aborts the signal of that task only:
\* a step that aborts the signal of a task and leaves the spawn-local signal
\* not aborted changes nothing else, so the spawn-local signal, the root and
\* the other forks are not aborted by it (the root's signal is aborted only
\* with the spawn-local one); the AbortError such a fork rejects with is not
\* recorded as a failure, and the outcome is the root's.
C37_ForkManualAbort ==
    /\ [](/\ sp.tAborted[0] => sp.spawnAborted
          /\ sp.failure # "none" => (sp.st[0] = "rejected" /\ sp.failure = sp.reason[0])
          /\ sp.caught = {}
          /\ sp.promise.state # "pending" =>
                /\ sp.st[0] = "fulfilled" => Fulfilled(sp.promise, Val(0))
                /\ sp.st[0] = "rejected" => Rejected(sp.promise, sp.reason[0]))
    /\ [][\A t \in TaskIds :
             (sp'.tAborted[t] /\ ~sp.tAborted[t] /\ ~sp'.spawnAborted) =>
                 sp' = [sp EXCEPT !.tAborted[t] = TRUE, !.abortEvents[t] = 1]]_vars

\* fork 1 was aborted by hand and rejected with AbortError while fork 2 and
\* the root ran on; the root then fulfilled and spawn with it
C37_Witness ==
    /\ sp.st[1] = "rejected" /\ isAbortError(sp.reason[1])
    /\ sp.st[2] = "fulfilled" /\ ~sp.tAborted[2]
    /\ ~sp.outerAborted
    /\ Fulfilled(sp.out, Val(0))

\* C35: spawn is itself abortable: when the outer signal was aborted after the
\* call, the root rejected with AbortError, no task rejected with another
\* error and no deferred function failed, the promise spawn returns is
\* rejected with AbortError once it settles, and it settles only after every
\* task has settled and every chained deferred function has run.
C35_SpawnIsAbortable ==
    (/\ sp.pc = "called" /\ ~sp.abortedAtCall /\ sp.outerAborted
     /\ sp.st[0] = "rejected" /\ isAbortError(sp.reason[0])
     /\ Genuine = {} /\ Failed = {}
     /\ sp.out.state # "pending") =>
        /\ Rejected(sp.out, AbortError)
        /\ sp.tasks = {}
        /\ \A t \in TaskIds : sp.st[t] # "running"
        /\ sp.deferChain = <<>>
        /\ \A i \in DeferIds : sp.deferSt[i] # "running"
        /\ \A i \in sp.deferLive : sp.deferSt[i] = "ok"

\* the outer signal was aborted while the root and a fork ran; both rejected
\* with AbortError and the two deferred functions have run
C35_Witness ==
    /\ sp.outerAborted /\ ~sp.abortedAtCall
    /\ sp.st[0] = "rejected" /\ isAbortError(sp.reason[0])
    /\ sp.st[1] = "rejected" /\ isAbortError(sp.reason[1])
    /\ sp.deferOrder = <<2, 1>>
    /\ Failed = {}
    /\ Rejected(sp.out, AbortError)

\* C39: a deferred function that fails does not keep the functions registered
\* before it from running: each of them is started once the failed one is
\* done, and has run when spawn settles; when several deferred functions have
\* failed, spawn rejects with the failure of the one that ran last, the
\* earliest registered of them.
C39_DeferFailuresDoNotStopTheChain ==
    /\ \A i \in Failed : \A j \in 1 .. i - 1 :
          \/ sp.deferSt[j] # "none"
          \/ (sp.queue # <<>> /\ Head(sp.queue) = Job("defer", j, "none"))
          \/ (sp.deferChain # <<>> /\ j <= Head(sp.deferChain))
    /\ sp.out.state # "pending" =>
          /\ \A i \in Failed : \A j \in 1 .. i :
                sp.deferCalls[j] = 1 /\ Settled(j)
          /\ Cardinality(Failed) > 1 =>
                /\ sp.deferSt[sp.deferOrder[Len(sp.deferOrder)]] = "failed" =>
                      Rejected(sp.out, DeferErr(sp.deferOrder[Len(sp.deferOrder)]))
                /\ \E i \in Failed :
                      /\ \A j \in Failed : i <= j
                      /\ Rejected(sp.out, DeferErr(i))

\* both deferred functions failed, the second registered first; spawn rejects
\* with the failure of the first registered
C39_Witness ==
    /\ Failed = {1, 2}
    /\ sp.deferOrder = <<2, 1>>
    /\ Rejected(sp.out, DeferErr(1))

\* ----------------------------------------------------------- spawn: liveness
\* The outer signal is aborted, or the root has settled, or a fork has
\* rejected with an error that is not an AbortError, in a spawn call that got
\* past the test of the outer signal.
SpawnWindsDown ==
    /\ sp.pc = "called" /\ ~sp.abortedAtCall
    /\ \/ sp.outerAborted
       \/ sp.st[0] \in {"fulfilled", "rejected"}
       \/ Genuine \ {0} # {}

\* C40: once the outer signal is aborted, the root has settled or a fork has
\* rejected with an error that is not an AbortError, the live set becomes empty
\* and the promise spawn returns settles in the end; once settled it does not
\* change.
C40_SpawnSettles ==
    /\ SpawnWindsDown ~> (sp.tasks = {} /\ sp.out.state # "pending")
    /\ [][sp.out.state # "pending" => sp'.out = sp.out]_vars

\* The promise spawn returns settles at most once.
C40_SettlesOnce == [][sp.out.state # "pending" => sp'.out = sp.out]_vars

====
